---- MODULE Spec2Model ----
(***************************************************************************)
(* Model of autorunner (src/autorunner/cli.py, src/autorunner/config.py):  *)
(* AutoClicker.__init__ / _verify_screen_dimensions (screen geometry),     *)
(* AutoClicker.find_and_click (template lookup, click-point resolution,    *)
(* pointer move and click) and AutoClicker.run_rounds (startup probe and   *)
(* the two-state main loop).                                               *)
(*                                                                         *)
(* The external collaborators (pyautogui.size, screenshot, locateOnScreen, *)
(* moveTo, click) are the environment: each call's outcome is an input     *)
(* drawn with \E from the set of outcomes the call can have.               *)
(*                                                                         *)
(* Floating point: a scale factor actual/reported is kept as the pair      *)
(* <<actual, reported>>, and int(v / factor) is computed exactly as        *)
(* trunc(v * reported / actual).                                           *)
(***************************************************************************)
EXTENDS Integers, Sequences, FiniteSets, TLC

VARIABLES
    pc,                       \* position in run_rounds: "probe", "loop", "done"; "test_click" in SpecClick
    looking_for_end_button,   \* cli.py:296   TRUE = SeekingEnd, FALSE = SeekingStart
    rounds_completed,         \* cli.py:295
    has_start_button_failures,\* hasattr(self, 'start_button_failures'), cli.py:359
    start_button_failures,    \* self.start_button_failures, cli.py:360-361 (0 while the attribute is absent)
    screen_width,             \* self.screen_width, cli.py:53,118
    screen_height,            \* self.screen_height
    scale_factor_x,           \* self.scale_factor_x as <<actual, reported>>, cli.py:57,113
    scale_factor_y,           \* self.scale_factor_y
    size,                     \* what pyautogui.size() returns: <<width, height>>
    has_alt_end_button,       \* cli.py:64
    exit_reason,              \* why the run ended: "none"; "interrupt", "error" (the handlers of
                              \* run_rounds, cli.py:391-394), "completed" (cli.py:389);
                              \* "one_shot", "invalid_flag", "config_error" (main)
    captured,                 \* history: the screenshot taken by _verify_screen_dimensions, cli.py:106
    num_rounds,               \* Config.num_rounds, config.py:24 and cli.py:634
    exit_code,                \* what main returns, cli.py:586-652 (NoExit until it returns)
    consecutive_failures,     \* history: failed main-loop start attempts since the last successful
                              \* start click or center click (not a program variable)
    clicks,                   \* history: the number of successful start-button clicks of run_rounds
                              \* and the button of its latest successful click
    last                      \* what the last step did (the observable effects of one iteration)

vars == <<pc, looking_for_end_button, rounds_completed, has_start_button_failures,
          start_button_failures, screen_width, screen_height, scale_factor_x,
          scale_factor_y, size, has_alt_end_button, exit_reason, captured,
          num_rounds, exit_code, consecutive_failures, clicks, last>>

geometry == <<screen_width, screen_height, scale_factor_x, scale_factor_y, size,
              has_alt_end_button>>

\* what no step of run_rounds or find_and_click can write
frame == <<size, has_alt_end_button, captured, num_rounds, exit_code>>

----------------------------------------------------------------------------
(* Program constants *)

round_wait_time == 30
between_rounds_wait_time == 3
retry_delay == 2
max_failures_before_center_click == 5
margin == 20

(* Bound of the model: rounds_completed is capped in the guards *)
MaxRounds == 2

----------------------------------------------------------------------------
(* Helpers *)

Min(a, b) == IF a < b THEN a ELSE b
Max(a, b) == IF a > b THEN a ELSE b

\* Python int() of a quotient: truncation toward zero
TruncDiv(a, b) == IF a >= 0 THEN a \div b ELSE -((-a) \div b)

Rect(l, t, w, h) == [left |-> l, top |-> t, width |-> w, height |-> h]
NoRect == Rect(0, 0, 0, 0)
NoPoint == <<-1, -1>>
NoExit == -1

One == <<1, 1>>
\* self.scale_factor != 1.0
ScaleDiffers(sf) == sf[1] # sf[2]
\* int(v / scale_factor)
Unscale(v, sf) == TruncDiv(v * sf[2], sf[1])

----------------------------------------------------------------------------
(* _verify_screen_dimensions, cli.py:102-121.  capture is
   [ok |-> BOOLEAN, w, h]: ok = FALSE when pyautogui.screenshot() raises. *)

Capture(w, h) == [ok |-> TRUE, w |-> w, h |-> h]
CaptureFails == [ok |-> FALSE, w |-> 0, h |-> 0]

VerifyScreenDimensionsInverted(reported, capture) ==
    IF capture.ok /\ (capture.w # reported[1] \/ capture.h # reported[2])
    THEN [screen_width |-> capture.w, screen_height |-> capture.h,
          scale_factor_x |-> <<reported[1], capture.w>>,
          scale_factor_y |-> <<reported[2], capture.h>>]
    ELSE [screen_width |-> reported[1], screen_height |-> reported[2],
          scale_factor_x |-> One, scale_factor_y |-> One]

VerifyScreenDimensionsAdoptsFailedCapture(reported, capture) ==
    IF capture.ok /\ (capture.w # reported[1] \/ capture.h # reported[2])
    THEN [screen_width |-> capture.w, screen_height |-> capture.h,
          scale_factor_x |-> <<capture.w, reported[1]>>,
          scale_factor_y |-> <<capture.h, reported[2]>>]
    ELSE [screen_width |-> IF capture.ok THEN reported[1] ELSE capture.w,
          screen_height |-> IF capture.ok THEN reported[2] ELSE capture.h,
          scale_factor_x |-> One, scale_factor_y |-> One]

VerifyScreenDimensions(reported, capture) ==
    IF capture.ok /\ (capture.w # reported[1] \/ capture.h # reported[2])
    THEN [screen_width |-> capture.w, screen_height |-> capture.h,
          scale_factor_x |-> <<capture.w, reported[1]>>,
          scale_factor_y |-> <<capture.h, reported[2]>>]
    ELSE [screen_width |-> reported[1], screen_height |-> reported[2],
          scale_factor_x |-> One, scale_factor_y |-> One]

----------------------------------------------------------------------------
(* Click-point resolution inside find_and_click, cli.py:237-269 *)

\* pyautogui.center(location), cli.py:239-240
Center(location) ==
    <<location.left + location.width \div 2, location.top + location.height \div 2>>

\* cli.py:243-249
ScaledCenter(location, sfx, sfy) ==
    LET c == Center(location)
    IN  IF ScaleDiffers(sfx) \/ ScaleDiffers(sfy)
        THEN <<Unscale(c[1], sfx), Unscale(c[2], sfy)>>
        ELSE c

\* the condition of cli.py:256
OutsideSafeArea(x, y, w, h) ==
    \/ x >= w
    \/ y >= h
    \/ x < margin
    \/ y < margin
    \/ x > w - margin
    \/ y > h - margin

SafeCoordinateNoClamp(corner, dim) == corner + margin

\* cli.py:261-266, one axis
SafeCoordinate(corner, dim) == Min(Max(margin, corner + margin), dim - margin)

ResolveClickPointAlwaysCorner(location, sfx, sfy, sz) ==
    <<SafeCoordinate(location.left, sz[1]), SafeCoordinate(location.top, sz[2])>>

ResolveClickPointPerAxis(location, sfx, sfy, sz) ==
    LET p == ScaledCenter(location, sfx, sfy)
    IN  <<IF p[1] >= sz[1] \/ p[1] < margin \/ p[1] > sz[1] - margin
          THEN SafeCoordinate(location.left, sz[1]) ELSE p[1],
          IF p[2] >= sz[2] \/ p[2] < margin \/ p[2] > sz[2] - margin
          THEN SafeCoordinate(location.top, sz[2]) ELSE p[2]>>

\* cli.py:239-269; sz is pyautogui.size() of cli.py:252
ResolveClickPoint(location, sfx, sfy, sz) ==
    LET p == ScaledCenter(location, sfx, sfy)
    IN  IF OutsideSafeArea(p[1], p[2], sz[1], sz[2])
        THEN <<SafeCoordinate(location.left, sz[1]), SafeCoordinate(location.top, sz[2])>>
        ELSE p

----------------------------------------------------------------------------
(* pyautogui.locateOnScreen: the outcomes of one call *)

Found(r) == [kind |-> "match", rect |-> r]
NotFound == [kind |-> "none", rect |-> NoRect]
\* raises an exception whose message contains "confidence"
ErrConfidence == [kind |-> "err_confidence", rect |-> NoRect]
\* raises any other exception
ErrOther == [kind |-> "err_other", rect |-> NoRect]

(* One template lookup of find_and_click: the confidence lookup and, when it
   raises a "confidence" error, the exact lookup (cli.py:211-221 for the
   primary image, cli.py:226-234 for the alternative).  status "raise" is an
   exception leaving the inner try. *)
LocateRetriesOnAnyError(conf, exact) ==
    CASE conf.kind = "match" ->
            [status |-> "found", rect |-> conf.rect, lookups |-> 1]
      [] conf.kind = "none" ->
            [status |-> "none", rect |-> NoRect, lookups |-> 1]
      [] OTHER ->
            IF exact.kind = "match"
            THEN [status |-> "found", rect |-> exact.rect, lookups |-> 2]
            ELSE IF exact.kind = "none"
            THEN [status |-> "none", rect |-> NoRect, lookups |-> 2]
            ELSE [status |-> "raise", rect |-> NoRect, lookups |-> 2]

Locate(conf, exact) ==
    CASE conf.kind = "match" ->
            [status |-> "found", rect |-> conf.rect, lookups |-> 1]
      [] conf.kind = "none" ->
            [status |-> "none", rect |-> NoRect, lookups |-> 1]
      [] conf.kind = "err_confidence" ->
            IF exact.kind = "match"
            THEN [status |-> "found", rect |-> exact.rect, lookups |-> 2]
            ELSE IF exact.kind = "none"
            THEN [status |-> "none", rect |-> NoRect, lookups |-> 2]
            ELSE [status |-> "raise", rect |-> NoRect, lookups |-> 2]
      [] OTHER ->
            [status |-> "raise", rect |-> NoRect, lookups |-> 1]

(* The environment of one find_and_click call:
     conf, exact          outcomes of the lookups of the primary image
     alt_conf, alt_exact  outcomes of the lookups of the alternative image
     move, click          "ok" or "raise": pyautogui.moveTo / pyautogui.click *)
Env(c, e, ac, ae, m, k) ==
    [conf |-> c, exact |-> e, alt_conf |-> ac, alt_exact |-> ae, move |-> m, click |-> k]

NoEnv == Env(NotFound, NotFound, NotFound, NotFound, "ok", "ok")

(* cli.py:224: alt_image_path is given and names a file *)
AltUsable(given, is_file) == given /\ is_file

(* The lookups of find_and_click, cli.py:207-234: the primary image, then the
   alternative when the primary gave no match; alt is TRUE when alt_image_path
   is given and is a file (cli.py:224) *)
WithAlt(prim, second, alt) ==
    IF prim.status = "none" /\ alt
    THEN [status |-> second.status, rect |-> second.rect, alt_tried |-> TRUE,
          primary_lookups |-> prim.lookups, alt_lookups |-> second.lookups]
    ELSE [status |-> prim.status, rect |-> prim.rect, alt_tried |-> FALSE,
          primary_lookups |-> prim.lookups, alt_lookups |-> 0]

LocateBoth(env, alt) ==
    WithAlt(Locate(env.conf, env.exact), Locate(env.alt_conf, env.alt_exact), alt)

(* What find_and_click does with the lookup result loc, cli.py:236-287;
   point is the resolved click point.
     ret     "True", "False", or "raise" (an exception leaving the body)
     lookup  "found", "none" (no match), "error" (a lookup raised)
     ctrl    "ok", "move_failed", "click_failed", "not_reached"
     moved, clicked: the pointer was moved / the click was issued *)
ClickOutcome(loc, point, move, click) ==
    [ret |-> CASE loc.status = "none" -> "False"
               [] loc.status = "found" /\ move = "ok" /\ click = "ok" -> "True"
               [] OTHER -> "raise",
     lookup |-> CASE loc.status = "raise" -> "error"
                  [] loc.status = "none" -> "none"
                  [] OTHER -> "found",
     ctrl |-> CASE loc.status # "found" -> "not_reached"
                [] move = "raise" -> "move_failed"
                [] click = "raise" -> "click_failed"
                [] OTHER -> "ok",
     moved |-> loc.status = "found" /\ move = "ok",
     clicked |-> loc.status = "found" /\ move = "ok" /\ click = "ok",
     loc |-> loc.rect,
     point |-> IF loc.status = "found" THEN point ELSE NoPoint,
     alt_tried |-> loc.alt_tried,
     primary_lookups |-> loc.primary_lookups,
     alt_lookups |-> loc.alt_lookups]

(* The body of the outer try of find_and_click, cli.py:199-287.
   Config.debug_mode is FALSE on every path that reaches run_rounds, so the
   debug screenshots (cli.py:201-205, 277-278) are not taken. *)
FindAndClickBody(env, alt, sfx, sfy, sz) ==
    ClickOutcome(LocateBoth(env, alt),
                 ResolveClickPoint(LocateBoth(env, alt).rect, sfx, sfy, sz),
                 env.move, env.click)

(* cli.py:289-291: every Exception that leaves the body is caught and turned
   into False *)
CaughtUnlessLookup(b) ==
    IF b.ret = "raise" /\ b.lookup # "error" THEN [b EXCEPT !.ret = "False"] ELSE b

Caught(b) == IF b.ret = "raise" THEN [b EXCEPT !.ret = "False"] ELSE b

FindAndClickLookupErrorEscapes(env, alt, sfx, sfy, sz) ==
    CaughtUnlessLookup(FindAndClickBody(env, alt, sfx, sfy, sz))

(* find_and_click, cli.py:195-291 *)
FindAndClick(env, alt, sfx, sfy, sz) ==
    Caught(FindAndClickBody(env, alt, sfx, sfy, sz))

----------------------------------------------------------------------------
(* Inputs of the round state machine *)

\* reported screen size and the captures taken by _verify_screen_dimensions
Reported == <<100, 80>>
Captures == {Capture(100, 80), Capture(200, 160), Capture(125, 100), CaptureFails}

\* match rectangles: centre inside the safe area; centre in the top-left
\* margin; centre beyond the reported screen unless the scale is 2
Rects == {Rect(40, 30, 20, 10), Rect(0, 0, 20, 20), Rect(150, 100, 20, 20)}

\* (confidence lookup, exact lookup) of one template; the exact lookup is
\* made only after a "confidence" error
LookupPairs(R) ==
    {<<Found(r), NotFound>> : r \in R}
    \cup {<<NotFound, NotFound>>, <<ErrOther, NotFound>>}
    \cup {<<ErrConfidence, x>> : x \in {Found(r) : r \in R} \cup {NotFound, ErrOther}}

\* (moveTo, click)
CtrlOutcomes == {<<"ok", "ok">>, <<"raise", "ok">>, <<"ok", "raise">>}

\* environments of a find_and_click call without alternative image; the
\* controller is reached only when the lookup found a match
ClickEnvs(R) ==
    {Env(lp[1], lp[2], NotFound, NotFound, c[1], c[2]) :
        lp \in LookupPairs(R),
        c \in CtrlOutcomes}

Reaches(env) == Locate(env.conf, env.exact).status = "found"
RunEnvs == {e \in ClickEnvs(Rects) : Reaches(e) \/ (e.move = "ok" /\ e.click = "ok")}

(* The fields of self that hold the screen geometry *)
Fields(sw, sh, sfx, sfy) ==
    [screen_width |-> sw, screen_height |-> sh,
     scale_factor_x |-> sfx, scale_factor_y |-> sfy]

FieldsOverwrittenBySize(g, sz) ==
    [g EXCEPT !.screen_width = sz[1], !.screen_height = sz[2]]

(* The fields after a call of find_and_click: cli.py:252 binds the result of
   pyautogui.size() to the locals screen_width, screen_height, and neither
   find_and_click (cli.py:195-291) nor run_rounds (cli.py:293-394) assigns
   self.screen_width, self.screen_height or the scale factors *)
FieldsAfterFindAndClick(g, sz) == g

GeometryAfterCalls ==
    \E g \in {FieldsAfterFindAndClick(
                Fields(screen_width, screen_height, scale_factor_x, scale_factor_y),
                size)} :
        /\ screen_width' = g.screen_width
        /\ screen_height' = g.screen_height
        /\ scale_factor_x' = g.scale_factor_x
        /\ scale_factor_y' = g.scale_factor_y

----------------------------------------------------------------------------
(* What a step did *)

Call(target, r) == [target |-> target, ret |-> r.ret, lookup |-> r.lookup, ctrl |-> r.ctrl]

\* the final log line of run_rounds: its kind and the round count it prints
\* (NoRounds when it prints none)
NoRounds == -1
NoReport == [kind |-> "none", rounds |-> NoRounds]
\* cli.py:392
InterruptReport(rc) == [kind |-> "interrupted", rounds |-> rc]
\* cli.py:394: the message holds the exception text only
ErrorReport(rc) == [kind |-> "error", rounds |-> NoRounds]
\* cli.py:389
CompletedReport(rc) == [kind |-> "completed", rounds |-> rc]

\* the lookups of a find_and_click call made with an alternative image:
\* what was passed, what the lookups would answer, which lookups were made
NoTrace ==
    [given |-> FALSE, is_file |-> FALSE, env |-> NoEnv,
     alt_tried |-> FALSE, primary_lookups |-> 0, alt_lookups |-> 0]

NoLast ==
    [step |-> "init", calls |-> <<>>, point |-> NoPoint, loc |-> NoRect,
     center |-> "none", center_point |-> NoPoint, wait |-> 0, at |-> "none",
     report |-> NoReport, trace |-> NoTrace]

\* some call of the step to one of the targets returned True
Clicked(l, target) ==
    \E i \in 1..Len(l.calls) : l.calls[i].target \in target /\ l.calls[i].ret = "True"

(* The history of successful clicks after a step that did l: find_and_click
   returned True for the start button (cli.py:316, 349) or for an end button
   (cli.py:305-307, 330-334) *)
NoClicks == [start |-> 0, prev |-> "none"]

Tally(c, l) ==
    IF Clicked(l, {"start"})
    THEN [start |-> c.start + 1, prev |-> "start"]
    ELSE IF Clicked(l, {"end", "alt_end"})
    THEN [c EXCEPT !.prev = "end"]
    ELSE c

ClicksAfter == clicks' = Tally(clicks, last')

----------------------------------------------------------------------------
(* run_rounds, cli.py:293-394 *)

(* The outcome of an attempt whose deciding find_and_click call is c *)
Attempt(calls, c) ==
    [calls |-> calls,
     ret |-> c.ret,
     point |-> IF c.ret = "True" THEN c.point ELSE NoPoint,
     loc |-> IF c.ret = "True" THEN c.loc ELSE NoRect]

(* The end-button attempt: the primary template, then the alternative when
   the first call returned False and the alternative image exists
   (cli.py:305-307 and cli.py:330-334); c1, c2 are the two calls *)
EndCalls(c1, c2, has_alt) ==
    IF c1.ret = "False" /\ has_alt
    THEN Attempt(<<Call("end", c1), Call("alt_end", c2)>>, c2)
    ELSE Attempt(<<Call("end", c1)>>, c1)

EndAttempt(e1, e2) ==
    EndCalls(FindAndClick(e1, FALSE, scale_factor_x, scale_factor_y, size),
             FindAndClick(e2, FALSE, scale_factor_x, scale_factor_y, size),
             has_alt_end_button)

(* cli.py:349 and cli.py:316 *)
StartCall(c) == Attempt(<<Call("start", c)>>, c)

StartAttempt(e) ==
    StartCall(FindAndClick(e, FALSE, scale_factor_x, scale_factor_y, size))

(* What a step that made the calls of attempt a did, before its wait *)
Step(step, a) ==
    [NoLast EXCEPT !.step = step, !.calls = a.calls, !.point = a.point, !.loc = a.loc]

(* An exception reaching "except Exception" of run_rounds, cli.py:393-394:
   the loop is left, no other variable of run_rounds changes *)
Fatal(l) ==
    /\ pc' = "done"
    /\ exit_reason' = "error"
    /\ last' = [l EXCEPT !.report = ErrorReport(rounds_completed)]
    /\ UNCHANGED <<looking_for_end_button, rounds_completed,
                   consecutive_failures, clicks, frame>> /\ GeometryAfterCalls

(* cli.py:298-299: max_rounds is infinite whatever Config.num_rounds is *)
max_rounds_from_config(n) == [inf |-> FALSE, n |-> n]

max_rounds(n) == [inf |-> TRUE, n |-> 0]

(* The loop condition, cli.py:326 *)
LoopCondition(mr, rc) == mr.inf \/ rc < mr.n

(* The loop condition is false: cli.py:389 *)
Completed ==
    /\ pc' = "done"
    /\ exit_reason' = "completed"
    /\ last' = [NoLast EXCEPT !.step = "completed",
                              !.report = CompletedReport(rounds_completed)]
    /\ UNCHANGED <<looking_for_end_button, rounds_completed, has_start_button_failures,
                   start_button_failures, consecutive_failures, clicks, geometry,
                   captured, num_rounds, exit_code>>

(* The environment of the second call of an attempt is drawn only when the
   call is made *)
SecondEnvs(E, first_ret, made, e) == IF made /\ first_ret = "False" THEN E ELSE {e}

(* cli.py:336-342 *)
AfterEndClickedKeepsState(rc) ==
    [rounds_completed |-> rc + 1, looking_for_end_button |-> TRUE,
     wait |-> between_rounds_wait_time]

AfterEndClickedIgnored(rc) ==
    [rounds_completed |-> rc, looking_for_end_button |-> TRUE,
     wait |-> between_rounds_wait_time]

AfterEndClicked(rc) ==
    [rounds_completed |-> rc + 1, looking_for_end_button |-> FALSE,
     wait |-> between_rounds_wait_time]

(* cli.py:343-345 *)
AfterEndFailedCounts(rc) ==
    [rounds_completed |-> rc + 1, looking_for_end_button |-> TRUE, wait |-> retry_delay]

AfterEndFailedLeavesState(rc) ==
    [rounds_completed |-> rc, looking_for_end_button |-> FALSE, wait |-> retry_delay]

AfterEndFailed(rc) ==
    [rounds_completed |-> rc, looking_for_end_button |-> TRUE, wait |-> retry_delay]

(* One main-loop iteration in SeekingEnd, cli.py:327-345, in an environment
   of E *)
SeekEndIn(E) ==
    /\ pc = "loop"
    /\ looking_for_end_button
    /\ IF ~LoopCondition(max_rounds(num_rounds), rounds_completed) THEN Completed ELSE
       \E e1 \in E :
        \E e2 \in SecondEnvs(E, StartAttempt(e1).ret, has_alt_end_button, e1) :
        \E a \in {EndAttempt(e1, e2)} :
        \E n \in {IF a.ret = "True" THEN AfterEndClicked(rounds_completed)
                  ELSE AfterEndFailed(rounds_completed)} :
            IF a.ret = "raise"
            THEN /\ Fatal(Step("seek_end", a))
                 /\ UNCHANGED <<has_start_button_failures, start_button_failures>>
            ELSE /\ n.rounds_completed <= MaxRounds
                 /\ rounds_completed' = n.rounds_completed
                 /\ looking_for_end_button' = n.looking_for_end_button
                 /\ last' = [Step("seek_end", a) EXCEPT !.wait = n.wait]
                 /\ UNCHANGED <<pc, exit_reason, has_start_button_failures,
                                start_button_failures, consecutive_failures, frame>>
                 /\ GeometryAfterCalls /\ ClicksAfter

SeekEnd == SeekEndIn(RunEnvs)

(* cli.py:351-356 *)
AfterStartClickedShortWait(failures) ==
    [looking_for_end_button |-> TRUE, wait |-> retry_delay,
     start_button_failures |-> failures]

AfterStartClickedStaysSeekingStart(failures) ==
    [looking_for_end_button |-> FALSE, wait |-> round_wait_time,
     start_button_failures |-> failures]

AfterStartClicked(failures) ==
    [looking_for_end_button |-> TRUE, wait |-> round_wait_time,
     start_button_failures |-> failures]

ShouldCenterClickAfterThreshold(failures) == failures > max_failures_before_center_click

(* cli.py:364 *)
ShouldCenterClick(failures) == failures >= max_failures_before_center_click

CenterOfScreenUnscaled(sw, sh, sfx, sfy) == <<sw \div 2, sh \div 2>>

(* cli.py:368-374 *)
CenterOfScreen(sw, sh, sfx, sfy) ==
    IF ScaleDiffers(sfx) \/ ScaleDiffers(sfy)
    THEN <<Unscale(sw \div 2, sfx), Unscale(sh \div 2, sfy)>>
    ELSE <<sw \div 2, sh \div 2>>

(* One main-loop iteration in SeekingStart, cli.py:346-387.  cm is the
   outcome of moveTo and click of the center click (cli.py:377-378); it is
   fixed to "ok" in the branches that make no center click.  E holds the
   environments of the start attempt. *)
SeekStartIn(E) ==
    /\ pc = "loop"
    /\ ~looking_for_end_button
    /\ IF ~LoopCondition(max_rounds(num_rounds), rounds_completed) THEN Completed ELSE
       \E e \in E, cm \in CtrlOutcomes :
        \E a \in {StartAttempt(e)} :
        \E l \in {Step("seek_start", a)} :
        \E n \in {AfterStartClicked(start_button_failures)} :
        \E f \in {start_button_failures + 1} :
        \E cp \in {CenterOfScreen(screen_width, screen_height,
                                  scale_factor_x, scale_factor_y)} :
            CASE a.ret = "raise" ->
                    /\ Fatal(l)
                    /\ UNCHANGED <<has_start_button_failures, start_button_failures>>
              [] a.ret = "True" ->
                    /\ cm = <<"ok", "ok">>
                    /\ looking_for_end_button' = n.looking_for_end_button
                    /\ start_button_failures' = n.start_button_failures
                    /\ consecutive_failures' = 0
                    /\ last' = [l EXCEPT !.wait = n.wait]
                    /\ UNCHANGED <<pc, exit_reason, rounds_completed,
                                   has_start_button_failures, frame>>
                    /\ GeometryAfterCalls /\ ClicksAfter
              [] a.ret = "False" /\ ShouldCenterClick(f) /\ cm # <<"ok", "ok">> ->
                    \* moveTo or click raises: cli.py:377-378 -> cli.py:393
                    /\ Fatal([l EXCEPT !.center = IF cm[1] = "raise" THEN "move_failed"
                                                  ELSE "click_failed",
                                       !.center_point = cp])
                    /\ has_start_button_failures' = TRUE
                    /\ start_button_failures' = f
              [] a.ret = "False" /\ ShouldCenterClick(f) /\ cm = <<"ok", "ok">> ->
                    /\ has_start_button_failures' = TRUE
                    /\ start_button_failures' = 0
                    /\ consecutive_failures' = 0
                    /\ last' = [l EXCEPT !.center = "done", !.center_point = cp,
                                         !.wait = retry_delay * 2]
                    /\ UNCHANGED <<pc, exit_reason, rounds_completed,
                                   looking_for_end_button, frame>>
                    /\ GeometryAfterCalls /\ ClicksAfter
              [] OTHER ->
                    /\ cm = <<"ok", "ok">>
                    /\ has_start_button_failures' = TRUE
                    /\ start_button_failures' = f
                    /\ consecutive_failures' = consecutive_failures + 1
                    /\ last' = [l EXCEPT !.wait = retry_delay]
                    /\ UNCHANGED <<pc, exit_reason, rounds_completed,
                                   looking_for_end_button, frame>>
                    /\ GeometryAfterCalls /\ ClicksAfter

SeekStart == SeekStartIn(RunEnvs)

(* The state after the startup probe, cli.py:310-323 *)
AfterProbeCountsRound(end_found, start_found, rc) ==
    IF end_found
    THEN [rounds_completed |-> rc + 1, looking_for_end_button |-> FALSE,
          wait |-> between_rounds_wait_time]
    ELSE IF start_found
    THEN [rounds_completed |-> rc, looking_for_end_button |-> TRUE,
          wait |-> round_wait_time]
    ELSE [rounds_completed |-> rc, looking_for_end_button |-> FALSE, wait |-> 0]

AfterProbeWaitsWhenNothing(end_found, start_found, rc) ==
    IF end_found
    THEN [rounds_completed |-> rc, looking_for_end_button |-> FALSE,
          wait |-> between_rounds_wait_time]
    ELSE IF start_found
    THEN [rounds_completed |-> rc, looking_for_end_button |-> TRUE,
          wait |-> round_wait_time]
    ELSE [rounds_completed |-> rc, looking_for_end_button |-> FALSE,
          wait |-> retry_delay]

AfterProbe(end_found, start_found, rc) ==
    IF end_found
    THEN [rounds_completed |-> rc, looking_for_end_button |-> FALSE,
          wait |-> between_rounds_wait_time]
    ELSE IF start_found
    THEN [rounds_completed |-> rc, looking_for_end_button |-> TRUE,
          wait |-> round_wait_time]
    ELSE [rounds_completed |-> rc, looking_for_end_button |-> FALSE, wait |-> 0]

(* The calls of the startup probe, cli.py:305-316: the start button is
   probed only when the end attempt returned False *)
ProbeCalls(a, s) ==
    IF a.ret = "False"
    THEN [s EXCEPT !.calls = a.calls \o s.calls]
    ELSE a

(* The startup probe, cli.py:303-323, in an environment of E *)
StartupProbeIn(E) ==
    /\ pc = "probe"
    /\ \E e1 \in E :
        \E e2 \in SecondEnvs(E, StartAttempt(e1).ret, has_alt_end_button, e1) :
        \E a \in {EndAttempt(e1, e2)} :
        \E e3 \in SecondEnvs(E, a.ret, TRUE, e1) :
        \E hit \in {ProbeCalls(a, StartAttempt(e3))} :
        \E n \in {AfterProbe(a.ret = "True", a.ret = "False" /\ hit.ret = "True",
                             rounds_completed)} :
            IF hit.ret = "raise"
            THEN /\ Fatal(Step("probe", hit))
                 /\ UNCHANGED <<has_start_button_failures, start_button_failures>>
            ELSE /\ pc' = "loop"
                 /\ rounds_completed' = n.rounds_completed
                 /\ looking_for_end_button' = n.looking_for_end_button
                 /\ last' = [Step("probe", hit) EXCEPT !.wait = n.wait]
                 /\ UNCHANGED <<exit_reason, has_start_button_failures,
                                start_button_failures, consecutive_failures, frame>>
                 /\ GeometryAfterCalls /\ ClicksAfter

StartupProbe == StartupProbeIn(RunEnvs)

(* KeyboardInterrupt, cli.py:391-392.  It is raised wherever the main thread
   is: in a wait or between two statements of the loop, inside a lookup, or
   between moveTo and click of a click.  find_and_click catches Exception
   only (cli.py:289), so the interrupt always reaches run_rounds. *)
InterruptPoints == {"wait", "lookup", "between_move_and_click"}

\* the find_and_click calls the program can be in
TargetsNow ==
    IF pc = "loop" /\ ~looking_for_end_button THEN {"start"}
    ELSE (IF pc = "probe" THEN {"end", "start"} ELSE {"end"})
         \cup (IF has_alt_end_button THEN {"alt_end"} ELSE {})

(* What the interrupted step had done.  Between moveTo (cli.py:273) and click
   (cli.py:280) of a call that located r the pointer is at the resolved point
   and the click is never issued. *)
Interrupted(at, target, r) ==
    IF at = "between_move_and_click"
    THEN [NoLast EXCEPT
            !.step = "interrupt", !.at = at,
            !.calls = <<[target |-> target, ret |-> "interrupt", lookup |-> "found",
                         ctrl |-> "moved_not_clicked"]>>,
            !.point = ResolveClickPoint(r, scale_factor_x, scale_factor_y, size),
            !.loc = r]
    ELSE [NoLast EXCEPT !.step = "interrupt", !.at = at]

Interrupt ==
    /\ pc \in {"probe", "loop"}
    /\ \E at \in InterruptPoints, target \in TargetsNow, r \in Rects :
        last' = [Interrupted(at, target, r) EXCEPT
                    !.report = InterruptReport(rounds_completed)]
    /\ pc' = "done"
    /\ exit_reason' = "interrupt"
    /\ UNCHANGED <<looking_for_end_button, rounds_completed, has_start_button_failures,
                   start_button_failures, consecutive_failures, clicks, geometry,
                   captured, num_rounds, exit_code>>

(* KeyboardInterrupt between moveTo and click of the center click,
   cli.py:377-378, in an iteration whose start attempt failed and whose
   failure count (cli.py:361) reached the threshold *)
InterruptCenterClick ==
    /\ pc = "loop"
    /\ ~looking_for_end_button
    /\ LoopCondition(max_rounds(num_rounds), rounds_completed)
    /\ ShouldCenterClick(start_button_failures + 1)
    /\ has_start_button_failures' = TRUE
    /\ start_button_failures' = start_button_failures + 1
    /\ last' = [NoLast EXCEPT
                  !.step = "interrupt", !.at = "between_move_and_click",
                  !.center = "moved_not_clicked",
                  !.center_point = CenterOfScreen(screen_width, screen_height,
                                                  scale_factor_x, scale_factor_y),
                  !.report = InterruptReport(rounds_completed)]
    /\ pc' = "done"
    /\ exit_reason' = "interrupt"
    /\ UNCHANGED <<looking_for_end_button, rounds_completed, consecutive_failures, clicks,
                   geometry, captured, num_rounds, exit_code>>

(* AutoClicker.__init__ (cli.py:44-100) has run and run_rounds starts
   (cli.py:295-296) *)
Constructed(reported, capture, alt) ==
    LET g == VerifyScreenDimensions(reported, capture)
    IN  /\ size = reported
        /\ screen_width = g.screen_width
        /\ screen_height = g.screen_height
        /\ scale_factor_x = g.scale_factor_x
        /\ scale_factor_y = g.scale_factor_y
        /\ has_alt_end_button = alt
        /\ captured = capture
        /\ has_start_button_failures = FALSE
        /\ start_button_failures = 0
        /\ rounds_completed = 0
        /\ looking_for_end_button = FALSE
        /\ exit_reason = "none"
        /\ consecutive_failures = 0
        /\ clicks = NoClicks
        /\ last = NoLast

\* Config.num_rounds: the default (config.py:24) or the value of --rounds=
NumRounds == {0, 1, 10}

Init ==
    /\ pc = "probe"
    /\ exit_code = NoExit
    /\ num_rounds \in NumRounds
    /\ \E capture \in Captures, alt \in BOOLEAN : Constructed(Reported, capture, alt)

Next ==
    \/ StartupProbe
    \/ SeekEnd
    \/ SeekStart
    \/ Interrupt
    \/ InterruptCenterClick

Spec == Init /\ [][Next]_vars

----------------------------------------------------------------------------
(* main, cli.py:586-652 *)

\* sys.argv[1]; the one-shot modes return before the loop
OneShotArgs == {"--debug", "--test-click", "--check-screen"}
InvalidArgs == {"--scale=x", "--rounds=x"}
Args == OneShotArgs \cup InvalidArgs
        \cup {"none", "--safe", "--resize", "--region", "--scale=2.0", "--rounds=n"}

Exit(code, reason) ==
    /\ pc' = "exited"
    /\ exit_code' = code
    /\ exit_reason' = reason
    /\ UNCHANGED <<num_rounds, last>>

(* cli.py:590-645: argument processing and the construction of AutoClicker.
   raises: the one-shot routine raises; images: the start and end button
   images exist (cli.py:71-78); n: the value of --rounds= *)
MainStart ==
    /\ pc = "main"
    \* an input that a branch does not read is fixed in that branch
    /\ \E arg \in Args, raises \in BOOLEAN, images \in BOOLEAN, n \in NumRounds :
        CASE arg \in OneShotArgs /\ ~raises -> images /\ Exit(0, "one_shot")
          [] arg \in OneShotArgs /\ raises -> images /\ Exit(1, "one_shot_error")
          [] arg \in InvalidArgs -> ~raises /\ images /\ Exit(1, "invalid_flag")
          [] ~images -> ~raises /\ Exit(1, "config_error")
          [] OTHER ->
                /\ ~raises
                /\ pc' = "probe"
                /\ num_rounds' = IF arg = "--rounds=n" THEN n ELSE num_rounds
                /\ UNCHANGED <<exit_code, exit_reason, last>>
    /\ UNCHANGED <<looking_for_end_button, rounds_completed, has_start_button_failures,
                   start_button_failures, consecutive_failures, clicks, geometry, captured>>

(* cli.py:646-652: run_rounds returned (it returns normally from each of its
   handlers, cli.py:389-394), main returns 0 *)
MainReturn ==
    /\ pc = "done"
    /\ pc' = "exited"
    /\ exit_code' = 0
    /\ UNCHANGED <<looking_for_end_button, rounds_completed, has_start_button_failures,
                   start_button_failures, consecutive_failures, clicks, geometry, captured,
                   num_rounds, exit_reason, last>>

(* main starts; the geometry fields hold what __init__ computes when it is
   reached *)
InitMain ==
    /\ pc = "main"
    /\ exit_code = NoExit
    /\ num_rounds = 10
    /\ \E capture \in Captures, alt \in BOOLEAN : Constructed(Reported, capture, alt)

NextMain ==
    \/ MainStart
    \/ MainReturn
    \/ Next

SpecMain == InitMain /\ [][NextMain]_vars

----------------------------------------------------------------------------
(* find_and_click called once on a located button, as test_single_click does
   (cli.py:452-476), over a wide range of screen sizes, captures and match
   rectangles *)

ClickReported == {<<30, 30>>, <<39, 60>>, <<40, 40>>, <<60, 50>>, <<1920, 1080>>}

ClickCaptures(rep) ==
    {Capture(rep[1], rep[2]), Capture(2 * rep[1], 2 * rep[2]),
     Capture((3 * rep[1]) \div 2, rep[2]), CaptureFails}

ClickCoords == {0, 15, 30, 100}
ClickSizes == {10, 50}

ClickRects ==
    {Rect(l, t, w, h) : l \in ClickCoords, t \in ClickCoords,
                        w \in ClickSizes, h \in ClickSizes}
    \cup {Rect(100, 100, 50, 50), Rect(1975, 1975, 50, 50), Rect(3800, 2100, 50, 50)}

InitClick ==
    /\ pc = "test_click"
    /\ exit_code = NoExit
    /\ num_rounds = 10
    /\ \E rep \in ClickReported :
         \E capture \in ClickCaptures(rep) : Constructed(rep, capture, FALSE)

FindAndClickCall ==
    /\ pc = "test_click"
    /\ \E r \in ClickRects :
        \E a \in {StartAttempt(Env(Found(r), NotFound, NotFound, NotFound, "ok", "ok"))} :
            last' = Step("find_and_click", a)
    /\ UNCHANGED <<pc, looking_for_end_button, rounds_completed,
                   has_start_button_failures, start_button_failures, exit_reason,
                   consecutive_failures, clicks, frame>>
    /\ GeometryAfterCalls

NextClick == FindAndClickCall

SpecClick == InitClick /\ [][NextClick]_vars

----------------------------------------------------------------------------
(* run_rounds left to run: no KeyboardInterrupt is delivered.  The loop of
   cli.py:326 takes its next iteration as long as it has not been left, which
   is weak fairness of the steps. *)
\* the outcomes of a call that the round state machine tells apart: a match
\* that is clicked, no match, a lookup that raises, a click that raises
LiveEnvs ==
    {Env(Found(Rect(40, 30, 20, 10)), NotFound, NotFound, NotFound, "ok", "ok"),
     Env(NotFound, NotFound, NotFound, NotFound, "ok", "ok"),
     Env(ErrOther, NotFound, NotFound, NotFound, "ok", "ok"),
     Env(Found(Rect(40, 30, 20, 10)), NotFound, NotFound, NotFound, "ok", "raise")}

ProbeLive == StartupProbeIn(LiveEnvs)
SeekEndLive == SeekEndIn(LiveEnvs)
SeekStartLive == SeekStartIn(LiveEnvs)

NextLive ==
    \/ ProbeLive
    \/ SeekEndLive
    \/ SeekStartLive

\* one screen geometry: no step of the loop depends on another run's geometry
InitLive ==
    /\ pc = "probe"
    /\ exit_code = NoExit
    /\ num_rounds = 10
    /\ \E alt \in BOOLEAN : Constructed(Reported, Capture(200, 160), alt)

SpecLive == InitLive /\ [][NextLive]_vars /\ WF_vars(NextLive)

----------------------------------------------------------------------------
(* find_and_click called with an alternative image (cli.py:195): every
   outcome of the lookups of both templates *)

\* two matches inside the safe area, one per template
LookupRects == {Rect(40, 30, 20, 10), Rect(60, 40, 20, 10)}

AltEnvs(R) ==
    {Env(p[1], p[2], q[1], q[2], c[1], c[2]) :
        p \in LookupPairs(R), q \in LookupPairs(R), c \in CtrlOutcomes}

Trace(env, given, is_file, r) ==
    [given |-> given, is_file |-> is_file, env |-> env,
     alt_tried |-> r.alt_tried, primary_lookups |-> r.primary_lookups,
     alt_lookups |-> r.alt_lookups]

InitLookup ==
    /\ pc = "test_alt"
    /\ exit_code = NoExit
    /\ num_rounds = 10
    /\ Constructed(Reported, Capture(Reported[1], Reported[2]), FALSE)

FindAndClickAlt ==
    /\ pc = "test_alt"
    /\ \E env \in AltEnvs(LookupRects), given \in BOOLEAN, is_file \in BOOLEAN :
        \E r \in {FindAndClick(env, AltUsable(given, is_file),
                               scale_factor_x, scale_factor_y, size)} :
            last' = [Step("find_and_click_alt", Attempt(<<Call("image", r)>>, r))
                        EXCEPT !.trace = Trace(env, given, is_file, r)]
    /\ UNCHANGED <<pc, looking_for_end_button, rounds_completed,
                   has_start_button_failures, start_button_failures, exit_reason,
                   consecutive_failures, clicks, frame>>
    /\ GeometryAfterCalls

NextLookup == FindAndClickAlt

SpecLookup == InitLookup /\ [][NextLookup]_vars

----------------------------------------------------------------------------
(* Properties *)

EndTargets == {"end", "alt_end"}
MainLoopSteps == {"seek_end", "seek_start"}

CtrlFailed(l) ==
    \E i \in 1..Len(l.calls) : l.calls[i].ctrl \in {"move_failed", "click_failed"}
LookupFailed(l) ==
    \E i \in 1..Len(l.calls) : l.calls[i].lookup \in {"none", "error"}
CenterFailed(l) == l.center \in {"move_failed", "click_failed"}

InSafeRange(v, dim) == margin <= v /\ v <= dim - margin
InSafeArea(p, sz) == InSafeRange(p[1], sz[1]) /\ InSafeRange(p[2], sz[2])

\* C1: a main-loop iteration in SeekingEnd whose end-button attempt succeeds
\* increments rounds_completed by exactly 1, moves to SeekingStart and waits
\* between_rounds_wait_time; the loop goes on.
C1_EndSuccess ==
    [][(pc = "loop" /\ looking_for_end_button
        /\ last'.step = "seek_end" /\ Clicked(last', EndTargets))
       => (/\ rounds_completed' = rounds_completed + 1
           /\ ~looking_for_end_button'
           /\ last'.wait = between_rounds_wait_time
           /\ pc' = "loop")]_vars

C1_Witness ==
    /\ last.step = "seek_end"
    /\ Clicked(last, {"alt_end"})
    /\ rounds_completed = 2
    /\ ~looking_for_end_button

\* C2: rounds_completed changes only by +1 and only in a main-loop iteration
\* whose end-button click succeeded; every other step leaves it unchanged.
C2_RoundsOnlyOnEndClick ==
    [][rounds_completed' # rounds_completed
       => (/\ rounds_completed' = rounds_completed + 1
           /\ pc = "loop" /\ looking_for_end_button
           /\ last'.step = "seek_end" /\ Clicked(last', EndTargets))]_vars

C2_Witness ==
    /\ rounds_completed = 1
    /\ last.step = "seek_start"
    /\ last.center = "done"

\* C3: after every successful start-button click of the main loop the
\* start-failure counter is 0.
C3_Claim ==
    (last.step = "seek_start" /\ Clicked(last, {"start"})) => start_button_failures = 0

\* C4: a failed start-seek iteration of the main loop performs the center
\* click exactly when it is the max_failures_before_center_click-th consecutive
\* failure since the last successful start click or center click; after the
\* click the counter is 0 and the wait is retry_delay * 2, otherwise the wait
\* is retry_delay.
C4_Claim ==
    [][(pc = "loop" /\ ~looking_for_end_button
        /\ last'.step = "seek_start" /\ ~Clicked(last', {"start"}))
       => (/\ (last'.center # "none")
                <=> (consecutive_failures + 1 = max_failures_before_center_click)
           /\ last'.center = "done"
                => (start_button_failures' = 0 /\ last'.wait = retry_delay * 2)
           /\ last'.center = "none" => last'.wait = retry_delay)]_vars

\* C5: a main-loop iteration in SeekingStart whose start-button attempt
\* succeeds moves to SeekingEnd, waits round_wait_time and leaves
\* rounds_completed unchanged.
C5_StartSuccess ==
    [][(pc = "loop" /\ ~looking_for_end_button
        /\ last'.step = "seek_start" /\ Clicked(last', {"start"}))
       => (/\ looking_for_end_button'
           /\ last'.wait = round_wait_time
           /\ rounds_completed' = rounds_completed
           /\ pc' = "loop")]_vars

C5_Witness ==
    /\ last.step = "seek_start"
    /\ Clicked(last, {"start"})
    /\ looking_for_end_button
    /\ rounds_completed = 1

\* C6 (as claimed): for all match rectangles, scale factors and screen sizes
\* the point find_and_click moves the pointer to lies in
\* [margin, dim - margin] on both axes of the size the resolver checks against.
C6_Claim ==
    (last.step = "find_and_click" /\ Clicked(last, {"start"}))
    => InSafeArea(last.point, size)

\* C6 (amended): the same, on every axis whose screen dimension is at least
\* 2 * margin = 40.
C6_SafePoint ==
    (last.step = "find_and_click" /\ Clicked(last, {"start"}))
    => \A i \in 1..2 : size[i] >= 2 * margin => InSafeRange(last.point[i], size[i])

C6_Witness ==
    /\ last.step = "find_and_click"
    /\ Clicked(last, {"start"})
    /\ size = <<60, 50>>
    /\ last.loc = Rect(100, 100, 50, 10)
    /\ last.point = <<40, 30>>

\* C7: when the scaled centre of the match lies in [margin, dim - margin] on
\* both axes, find_and_click clicks exactly that point; scale 1.0 on 1920x1080
\* with rect(100,100,50,50) gives (125,125), and scale 2.0 with capture-space
\* centre (2000,2000) gives (1000,1000).
C7_CenterKept ==
    (last.step = "find_and_click" /\ Clicked(last, {"start"}))
    => LET c == Center(last.loc)
           sx == IF scale_factor_x # One \/ scale_factor_y # One
                 THEN (c[1] * scale_factor_x[2]) \div scale_factor_x[1] ELSE c[1]
           sy == IF scale_factor_x # One \/ scale_factor_y # One
                 THEN (c[2] * scale_factor_y[2]) \div scale_factor_y[1] ELSE c[2]
       IN  /\ InSafeArea(<<sx, sy>>, size) => last.point = <<sx, sy>>
           /\ (size = <<1920, 1080>> /\ scale_factor_x = One /\ scale_factor_y = One
               /\ last.loc = Rect(100, 100, 50, 50)) => last.point = <<125, 125>>
           /\ (size = <<1920, 1080>> /\ scale_factor_x = <<3840, 1920>>
               /\ scale_factor_y = <<2160, 1080>> /\ c = <<2000, 2000>>)
              => last.point = <<1000, 1000>>

C7_Witness ==
    /\ last.step = "find_and_click"
    /\ size = <<1920, 1080>>
    /\ scale_factor_x = <<3840, 1920>>
    /\ Center(last.loc) = <<2000, 2000>>
    /\ last.point = <<1000, 1000>>

\* C8: in the main loop every failure of moveTo or click, inside find_and_click
\* or in the center click, ends the loop in that iteration with no wait.
C8_Claim ==
    (last.step \in MainLoopSteps /\ (CtrlFailed(last) \/ CenterFailed(last)))
    => (pc = "done" /\ exit_reason = "error" /\ last.wait = 0)

\* C9 (as claimed): in the main loop a lookup that finds nothing or raises
\* makes find_and_click return False without raising, and the loop is still
\* running after the iteration.
C9_Claim ==
    (last.step \in MainLoopSteps /\ LookupFailed(last))
    => (/\ \A i \in 1..Len(last.calls) :
              last.calls[i].lookup \in {"none", "error"} => last.calls[i].ret = "False"
        /\ pc = "loop")

\* C9 (amended): in the main loop a lookup that finds nothing or raises makes
\* find_and_click return False without raising, and the loop is still running
\* after the iteration unless the fallback center click of that iteration
\* failed in moveTo or click; when no button was clicked the state is kept and
\* the wait is retry_delay, or retry_delay * 2 after a center click.
C9_LookupFailureIsSoft ==
    (last.step \in MainLoopSteps /\ LookupFailed(last))
    => (/\ \A i \in 1..Len(last.calls) :
              last.calls[i].lookup \in {"none", "error"} => last.calls[i].ret = "False"
        /\ pc = "loop" \/ CenterFailed(last)
        /\ (pc = "loop" /\ ~Clicked(last, EndTargets \cup {"start"}))
           => (/\ looking_for_end_button = (last.step = "seek_end")
               /\ last.wait = IF last.center = "done" THEN retry_delay * 2
                              ELSE retry_delay))

C9_Witness ==
    /\ last.step = "seek_end"
    /\ Len(last.calls) = 2
    /\ last.calls[1].lookup = "error"
    /\ last.calls[2].lookup = "none"
    /\ pc = "loop"
    /\ looking_for_end_button

\* C10: when the end-button attempt of the startup probe succeeds (primary, or
\* the alternative after the primary did not click and the alternative
\* exists), the main loop is entered in SeekingStart after a wait of
\* between_rounds_wait_time, rounds_completed is 0 and the start button is not
\* probed.
C10_ProbeEnd ==
    (last.step = "probe" /\ Clicked(last, EndTargets))
    => (/\ pc = "loop"
        /\ ~looking_for_end_button
        /\ last.wait = between_rounds_wait_time
        /\ rounds_completed = 0
        /\ \A i \in 1..Len(last.calls) : last.calls[i].target # "start"
        /\ Clicked(last, {"alt_end"})
           => (has_alt_end_button /\ last.calls[1].ret = "False"))

C10_Witness ==
    /\ last.step = "probe"
    /\ Clicked(last, {"alt_end"})
    /\ pc = "loop"

\* C11: when the startup probe clicks no end button it attempts the start
\* button exactly once; a start click enters the main loop in SeekingEnd after
\* a wait of round_wait_time, no start click enters it in SeekingStart with no
\* wait.
C11_ProbeRest ==
    (last.step = "probe" /\ ~Clicked(last, EndTargets))
    => (/\ pc = "loop"
        /\ Cardinality({i \in 1..Len(last.calls) : last.calls[i].target = "start"}) = 1
        /\ Clicked(last, {"start"})
           => (looking_for_end_button /\ last.wait = round_wait_time)
        /\ ~Clicked(last, {"start"})
           => (~looking_for_end_button /\ last.wait = 0))

C11_Witness ==
    /\ last.step = "probe"
    /\ Len(last.calls) = 3
    /\ ~Clicked(last, EndTargets \cup {"start"})
    /\ pc = "loop"
    /\ last.wait = 0

\* C12: run_rounds never reacts to a KeyboardInterrupt between the pointer
\* move and the click of a click in flight, in find_and_click or in the center
\* click.
C12_Claim ==
    last.step = "interrupt"
    => (/\ \A i \in 1..Len(last.calls) : last.calls[i].ctrl # "moved_not_clicked"
        /\ last.center # "moved_not_clicked")

\* C13: when run_rounds has ended, for either exit reason, its final report
\* holds the value of rounds_completed at the exit.
C13_Claim ==
    pc = "done" => last.report.rounds = rounds_completed

\* C14: after _verify_screen_dimensions with a successful capture (w,h) of a
\* reported size (W,H): scale_factor_x = w/W and scale_factor_y = h/H, both are
\* 1.0 when the sizes are equal, and when they differ screen_width and
\* screen_height are the captured w and h.
C14_ScaleFactors ==
    captured.ok
    => (/\ scale_factor_x[1] * size[1] = captured.w * scale_factor_x[2]
        /\ scale_factor_y[1] * size[2] = captured.h * scale_factor_y[2]
        /\ (captured.w = size[1] /\ captured.h = size[2])
           => (scale_factor_x[1] = scale_factor_x[2]
               /\ scale_factor_y[1] = scale_factor_y[2])
        /\ (captured.w # size[1] \/ captured.h # size[2])
           => (screen_width = captured.w /\ screen_height = captured.h))

C14_Witness ==
    /\ captured = Capture(2880, 1080)
    /\ size = <<1920, 1080>>
    /\ scale_factor_x = <<2880, 1920>>
    /\ scale_factor_y = <<1080, 1080>>
    /\ screen_width = 2880

\* C15: when the reported and the captured size differ, the safe-margin check
\* and the clamp of find_and_click use the captured width and height.
C15_Claim ==
    (last.step = "find_and_click" /\ Clicked(last, {"start"}) /\ captured.ok
     /\ (captured.w # size[1] \/ captured.h # size[2]))
    => LET c == Center(last.loc)
           x == (c[1] * scale_factor_x[2]) \div scale_factor_x[1]
           y == (c[2] * scale_factor_y[2]) \div scale_factor_y[1]
       IN  InSafeArea(<<x, y>>, <<captured.w, captured.h>>) => last.point = <<x, y>>

C18_Claim ==
    pc = "exited"
    => (/\ exit_code \in {0, 1}
        /\ exit_code = 1
           <=> exit_reason \in {"invalid_flag", "config_error", "error", "one_shot_error"})

\* C19: when the startup screen capture fails, initialization goes on with
\* both scale factors 1.0 and screen_width, screen_height the reported size.
C19_CaptureFailsSoft ==
    ~captured.ok
    => (/\ scale_factor_x = One
        /\ scale_factor_y = One
        /\ screen_width = size[1]
        /\ screen_height = size[2])

C19_Witness ==
    /\ ~captured.ok
    /\ size = <<1920, 1080>>
    /\ screen_width = 1920
    /\ last.step = "find_and_click"
    /\ last.point = <<125, 125>>

\* C20: no step of the startup probe, the main loop, find_and_click or the
\* center click changes scale_factor_x, scale_factor_y, screen_width or
\* screen_height.
C20_GeometryImmutable ==
    [][/\ screen_width' = screen_width
       /\ screen_height' = screen_height
       /\ scale_factor_x' = scale_factor_x
       /\ scale_factor_y' = scale_factor_y]_vars

C20_Witness ==
    /\ last.center = "done"
    /\ rounds_completed = 1
    /\ screen_width = 200
    /\ size = <<100, 80>>
    /\ scale_factor_x = <<200, 100>>

\* what one template lookup answers when a soft failure counts as "not found"
Matched(conf, exact) ==
    conf.kind = "match" \/ (conf.kind = "err_confidence" /\ exact.kind = "match")

\* C21: find_and_click with an alternative template looks up the primary
\* first; whenever the primary lookup yields no match (a failed lookup counts
\* as no match) and the alternative is given and is a file, the alternative is
\* looked up; the click is on the first match found; the alternative is never
\* looked up when the primary matched.
C21_Claim ==
    last.step = "find_and_click_alt"
    => LET t == last.trace
           e == t.env
           prim == Matched(e.conf, e.exact)
           usable == t.given /\ t.is_file
       IN  /\ t.primary_lookups >= 1
           /\ (~prim /\ usable) => t.alt_tried
           /\ prim => ~t.alt_tried
           /\ last.calls[1].ret = "True"
              => last.loc = IF prim
                            THEN (IF e.conf.kind = "match" THEN e.conf.rect ELSE e.exact.rect)
                            ELSE (IF e.alt_conf.kind = "match" THEN e.alt_conf.rect
                                  ELSE e.alt_exact.rect)

\* C24: when the confidence lookup of a template raises the "confidence"
\* error, exactly one exact lookup of the same template follows and its answer
\* is the lookup result (a match is clicked and True returned, no match is
\* "not found"); after any other error no exact lookup is made.
C24_ConfidenceFallback ==
    last.step = "find_and_click_alt"
    => LET t == last.trace
           e == t.env
           c == last.calls[1]
       IN  /\ e.conf.kind = "err_confidence" => t.primary_lookups = 2
           /\ e.conf.kind # "err_confidence" => t.primary_lookups = 1
           /\ (e.conf.kind = "err_confidence" /\ e.exact.kind = "match")
              => (/\ c.lookup = "found"
                  /\ ~t.alt_tried
                  /\ (e.move = "ok" /\ e.click = "ok")
                     => (c.ret = "True" /\ last.loc = e.exact.rect))
           /\ (e.conf.kind = "err_confidence" /\ e.exact.kind = "none"
               /\ ~(t.given /\ t.is_file))
              => (c.ret = "False" /\ c.lookup = "none")
           /\ e.conf.kind = "err_other" => (c.ret = "False" /\ c.lookup = "error")
           /\ t.alt_tried
              => (/\ t.alt_lookups = IF e.alt_conf.kind = "err_confidence" THEN 2 ELSE 1
                  /\ (e.alt_conf.kind = "err_confidence" /\ e.alt_exact.kind = "match"
                      /\ e.move = "ok" /\ e.click = "ok")
                     => (c.ret = "True" /\ last.loc = e.alt_exact.rect))
           /\ ~t.alt_tried => t.alt_lookups = 0

C24_Witness ==
    /\ last.step = "find_and_click_alt"
    /\ last.trace.env.conf = ErrConfidence
    /\ last.trace.env.exact = Found(Rect(60, 40, 20, 10))
    /\ last.trace.primary_lookups = 2
    /\ last.calls[1].ret = "True"
    /\ last.loc = Rect(60, 40, 20, 10)
    /\ last.point = <<70, 45>>

\* clamp(v, lo, hi) in the order of cli.py:265-266
Clamp(v, lo, hi) == Min(Max(lo, v), hi)

\* C22: when the scaled centre fails the safe-margin test on either axis,
\* find_and_click clicks (clamp(left + 20, 20, screenWidth - 20),
\* clamp(top + 20, 20, screenHeight - 20)); both coordinates are replaced even
\* when only one axis failed.  screenWidth, screenHeight are the locals of
\* cli.py:252 and clamp(v, lo, hi) is min(max(lo, v), hi).
C22_CornerFallback ==
    (last.step = "find_and_click" /\ Clicked(last, {"start"}))
    => LET c == Center(last.loc)
           scaled == scale_factor_x # One \/ scale_factor_y # One
           sx == IF scaled THEN (c[1] * scale_factor_x[2]) \div scale_factor_x[1] ELSE c[1]
           sy == IF scaled THEN (c[2] * scale_factor_y[2]) \div scale_factor_y[1] ELSE c[2]
       IN  ~InSafeArea(<<sx, sy>>, size)
           => last.point = <<Clamp(last.loc.left + margin, margin, size[1] - margin),
                             Clamp(last.loc.top + margin, margin, size[2] - margin)>>

C22_Witness ==
    /\ last.step = "find_and_click"
    /\ Clicked(last, {"start"})
    /\ size = <<1920, 1080>>
    /\ scale_factor_x = One
    /\ scale_factor_y = One
    /\ last.loc = Rect(100, 0, 50, 10)
    /\ last.point = <<120, 20>>

\* C23: a failed start-seek iteration leaves the state SeekingStart and
\* rounds_completed unchanged, whether it only waits retry_delay or makes the
\* center click; a failed end-seek iteration leaves the state SeekingEnd, waits
\* retry_delay and changes neither rounds_completed nor the start-failure
\* counter.
C23_FailedSeekKeepsState ==
    [][/\ (pc = "loop" /\ last'.step = "seek_start" /\ ~Clicked(last', {"start"}))
          => (/\ ~looking_for_end_button /\ ~looking_for_end_button'
              /\ rounds_completed' = rounds_completed
              /\ last'.center = "none" => (last'.wait = retry_delay /\ pc' = "loop")
              /\ last'.center = "done" => (last'.wait = retry_delay * 2 /\ pc' = "loop"))
       /\ (pc = "loop" /\ last'.step = "seek_end" /\ ~Clicked(last', EndTargets))
          => (/\ looking_for_end_button /\ looking_for_end_button'
              /\ pc' = "loop"
              /\ last'.wait = retry_delay
              /\ rounds_completed' = rounds_completed
              /\ start_button_failures' = start_button_failures
              /\ has_start_button_failures' = has_start_button_failures)]_vars

C23_Witness ==
    /\ last.step = "seek_end"
    /\ ~Clicked(last, EndTargets)
    /\ Len(last.calls) = 2
    /\ looking_for_end_button
    /\ rounds_completed = 1
    /\ start_button_failures = 1
    /\ last.wait = retry_delay

\* the clicks a step issued: calls of find_and_click that clicked, and the
\* center click
ClicksIssued(l) ==
    Cardinality({i \in 1..Len(l.calls) : l.calls[i].ctrl = "ok"})
    + (IF l.center = "done" THEN 1 ELSE 0)

\* C25: over the startup probe and the main loop, successful start-button
\* clicks and successful end-button clicks strictly alternate; no main-loop
\* iteration issues more than one click; and always rounds_completed <=
\* (number of successful start clicks) <= rounds_completed + 1.
C25_Alternation ==
    /\ [](/\ rounds_completed <= clicks.start
          /\ clicks.start <= rounds_completed + 1
          /\ last.step \in MainLoopSteps => ClicksIssued(last) <= 1)
    /\ [][/\ Clicked(last', {"start"}) /\ last'.step \in MainLoopSteps \cup {"probe"}
             => clicks.prev # "start"
          /\ Clicked(last', EndTargets) /\ last'.step \in MainLoopSteps \cup {"probe"}
             => clicks.prev # "end"
          /\ clicks' # clicks
             => (Clicked(last', {"start"}) \/ Clicked(last', EndTargets))]_vars

C25_Witness ==
    /\ clicks = [start |-> 2, prev |-> "end"]
    /\ rounds_completed = 2
    /\ last.step = "seek_end"
    /\ Clicked(last, {"alt_end"})

\* C26: at every main-loop iteration boundary 0 <= start_button_failures <
\* max_failures_before_center_click; the counter never exceeds the threshold,
\* and it is incremented only by a failed start-seek attempt of the main loop,
\* never by the startup probe or an end-seek attempt.
C26_CounterRange ==
    /\ [](/\ 0 <= start_button_failures
          /\ start_button_failures <= max_failures_before_center_click
          /\ pc \in {"probe", "loop"}
             => start_button_failures < max_failures_before_center_click
          /\ last.step = "probe" => start_button_failures = 0)
    /\ [][start_button_failures' > start_button_failures
          => (/\ start_button_failures' = start_button_failures + 1
              /\ pc = "loop"
              /\ ~looking_for_end_button
              /\ last'.step \in {"seek_start", "interrupt"}
              /\ ~Clicked(last', {"start", "end", "alt_end"}))]_vars

C26_Witness ==
    /\ pc = "loop"
    /\ start_button_failures = max_failures_before_center_click - 1
    /\ last.step = "seek_start"
    /\ last.center = "none"
    /\ rounds_completed = 1

SeekingStart == pc = "loop" /\ ~looking_for_end_button
SeekingEnd == pc = "loop" /\ looking_for_end_button

\* the last iteration found and clicked the button it sought
StartClicked == last.step = "seek_start" /\ Clicked(last, {"start"})
EndClicked == last.step = "seek_end" /\ Clicked(last, EndTargets)

\* a button that is sought again and again is eventually found and clicked
\* (the model counts rounds up to MaxRounds only)
SoughtButtonIsFound ==
    /\ []<>SeekingStart => []<>StartClicked
    /\ []<>(SeekingEnd /\ rounds_completed < MaxRounds) => []<>EndClicked

\* no exception and no interrupt ends the loop
NeverLeft == [](pc # "done")

\* C27: in a run that is never interrupted and meets no fatal error, in which
\* a button sought repeatedly is eventually found and clicked, SeekingStart
\* leads to SeekingEnd, SeekingEnd leads to SeekingStart and rounds_completed
\* passes every value (up to the bound MaxRounds of the model).
C27_Progress ==
    (NeverLeft /\ SoughtButtonIsFound)
    => (/\ SeekingStart ~> SeekingEnd
        /\ (SeekingEnd /\ rounds_completed < MaxRounds) ~> SeekingStart
        /\ \A n \in 0..(MaxRounds - 1) :
              (rounds_completed = n) ~> (rounds_completed = n + 1))

\* C27, second part (as a property that does not hold): without the
\* assumption on the buttons SeekingEnd would still lead to SeekingStart.
C27_EndSeekEscalates ==
    NeverLeft => ((SeekingEnd /\ rounds_completed < MaxRounds) ~> SeekingStart)

C27_Witness ==
    /\ pc = "loop"
    /\ rounds_completed = MaxRounds
    /\ ~looking_for_end_button
    /\ last.step = "seek_end"
    /\ Clicked(last, EndTargets)

====
